---- MODULE Spec2Model ----
(***************************************************************************)
(* A model of package k8s (rwxrob/k8s): NormYAML, the KubeConfig           *)
(* Load/String/Write operations over yaml.v2, and AuthProvider.String.     *)
(*                                                                         *)
(* Byte sequences are sequences of lexemes ("a", ":", "\n", "{", ...); the *)
(* lexeme ":" stands for the two bytes ": " and "," for ", ".              *)
(***************************************************************************)
EXTENDS Naturals, Sequences, FiniteSets, TLC

VARIABLES
    y,        \* NormYAML: the input bytes of the first call
    src,      \* NormYAML: how y was written (pairs, layout, quoting); "raw" for hand-written inputs
    r1,       \* NormYAML: result of NormYAML(y)
    y2,       \* NormYAML: the input bytes of the second call
    r2,       \* NormYAML: result of NormYAML(y2)
    nmode,    \* NormYAML: "init", "called", "again" (y2 is r1's bytes), "other" (y2 is y re-spelled)
    c,        \* KubeConfig: the receiver
    fs,       \* KubeConfig: the files, path -> [exists, mode, data]
    last,     \* KubeConfig: the last operation, its path, its error, whether it wrote a file
    shown,    \* KubeConfig: what String() did, when it was the last operation
    loaded,   \* KubeConfig: the content of the file c was last loaded from without error
    assigned, \* KubeConfig: the fields the caller assigned since that load
    ops,      \* KubeConfig: how many operations have run
    ap,       \* AuthProvider: the value
    apOp,     \* AuthProvider: the last formatting call
    apOut     \* AuthProvider: the string it returned

normVars == <<y, src, r1, y2, r2, nmode>>
cfgVars == <<c, fs, last, shown, loaded, assigned, ops>>
authVars == <<ap, apOp, apOut>>
vars == <<normVars, cfgVars, authVars>>

(***************************************************************************)
(* Bounds.                                                                 *)
(***************************************************************************)
MaxKeys == 2          \* most keys in a generated input mapping
MaxEntries == 3       \* most entries in a list of a generated KUBECONFIG file
MaxOps == 3           \* most operations on one KubeConfig in a run

(***************************************************************************)
(* YAML values, as yaml.Unmarshal into an interface{} produces them.       *)
(***************************************************************************)
VNull == [t |-> "null"]
VStr(s) == [t |-> "str", s |-> s]
VNum(s) == [t |-> "num", s |-> s]
VNaN == [t |-> "float", s |-> ".nan"]
VMap(m) == [t |-> "map", m |-> m]
EmptyFn == [k \in {} |-> VNull]

\* Mapping keys, in the encoder's sort order.
Keys == <<"a", "b", "c">>
KeySet == {Keys[i] : i \in DOMAIN Keys}
KeyRank(k) == CHOOSE i \in DOMAIN Keys : Keys[i] = k

\* Scalar texts that can appear between quotes.
Texts == {"a", "b", "c", "1", "null", ".nan", "{}"}

RECURSIVE Join(_)
Join(ts) == IF ts = <<>> THEN "" ELSE Head(ts) \o Join(Tail(ts))

Chars(s) == IF s = "{}" THEN <<"{", "}">> ELSE <<s>>

QuoteStyles == {"plain", "single", "double"}
QuoteMark(q) == IF q = "single" THEN "'" ELSE "\""
Quote(q, s) ==
    IF q = "plain" THEN Chars(s)
    ELSE <<QuoteMark(q)>> \o Chars(s) \o <<QuoteMark(q)>>

(***************************************************************************)
(* The YAML parser (yaml.v2's, reached through kyaml.Unmarshal).           *)
(***************************************************************************)
Fail == [ok |-> FALSE, v |-> VNull, rest |-> <<>>]

\* yaml.v2 resolve(): the implicit type of a plain scalar.
Resolve(tok) ==
    CASE tok \in {"null", "~"} -> [ok |-> TRUE, v |-> VNull]
      [] tok \in {"1", "2"} -> [ok |-> TRUE, v |-> VNum(tok)]
      [] tok = ".nan" -> [ok |-> TRUE, v |-> VNaN]
      [] tok \in {"a", "b", "c"} -> [ok |-> TRUE, v |-> VStr(tok)]
      [] OTHER -> [ok |-> FALSE, v |-> VNull]

\* Index of the first tok in ts at or after from, or 0.
FirstOf(hits) == IF hits = {} THEN 0 ELSE CHOOSE i \in hits : \A j \in hits : i <= j
IndexOf(ts, tok, from) == FirstOf({i \in from..Len(ts) : ts[i] = tok})

Drop(ts, n) == SubSeq(ts, n + 1, Len(ts))

Node(v, rest) == [ok |-> TRUE, v |-> v, rest |-> rest]

\* A quoted scalar is a string whatever its text.
QuotedText(text, rest) == IF text \in Texts THEN Node(VStr(text), rest) ELSE Fail
QuotedAt(ts, close) ==
    IF close = 0 THEN Fail ELSE QuotedText(Join(SubSeq(ts, 2, close - 1)), Drop(ts, close))

SkipSpace(ts) == IF ts # <<>> /\ Head(ts) = " " THEN Tail(ts) ELSE ts
EmptyFlow(ts) == IF ts # <<>> /\ Head(ts) = "}" THEN Node(VMap(EmptyFn), Tail(ts)) ELSE Fail

Plain(r, rest) == IF r.ok THEN Node(r.v, rest) ELSE Fail

\* One node: a quoted scalar, an empty flow mapping, or a plain scalar.
ReadValue(ts) ==
    IF ts = <<>> THEN Fail
    ELSE IF Head(ts) \in {"'", "\""} THEN QuotedAt(ts, IndexOf(ts, Head(ts), 2))
    ELSE IF Head(ts) = "{" THEN EmptyFlow(SkipSpace(Tail(ts)))
    ELSE Plain(Resolve(Head(ts)), Tail(ts))

\* key ":" value; the key is a string scalar.
PairValue(key, v) == IF v.ok THEN Node(<<key, v.v>>, v.rest) ELSE Fail
PairKey(k) ==
    IF ~k.ok \/ k.v.t # "str" \/ k.rest = <<>> \/ Head(k.rest) # ":" THEN Fail
    ELSE PairValue(k.v.s, ReadValue(Tail(k.rest)))
ReadPair(ts) == PairKey(ReadValue(ts))

Put(m, k, v) == [x \in DOMAIN m \cup {k} |-> IF x = k THEN v ELSE m[x]]

AtEnd(ts) == ts = <<>> \/ ts = <<"\n">>

\* "{" pair ("," pair)* "}"
RECURSIVE ParseFlow(_, _)
FlowNext(rest, m) ==
    IF Head(rest) = "," THEN ParseFlow(Tail(rest), m)
    ELSE IF Head(rest) = "}" /\ AtEnd(Tail(rest)) THEN Node(VMap(m), <<>>)
    ELSE Fail
FlowPair(p, acc) ==
    IF ~p.ok \/ p.rest = <<>> THEN Fail ELSE FlowNext(p.rest, Put(acc, p.v[1], p.v[2]))
ParseFlow(ts, acc) == FlowPair(ReadPair(ts), acc)

RECURSIVE Indent(_)
Indent(ts) == IF ts # <<>> /\ Head(ts) = " " THEN 1 + Indent(Tail(ts)) ELSE 0

\* Lines of pair "\n", all at the same indentation.
RECURSIVE ParseBlock(_, _, _)
BlockNext(rest, ind, m) ==
    IF rest = <<>> THEN Node(VMap(m), <<>>)
    ELSE IF Head(rest) # "\n" THEN Fail
    ELSE ParseBlock(Tail(rest), ind, m)
BlockPair(p, ind, acc) ==
    IF ~p.ok THEN Fail ELSE BlockNext(p.rest, ind, Put(acc, p.v[1], p.v[2]))
ParseBlock(ts, ind, acc) ==
    IF ts = <<>> THEN Node(VMap(acc), <<>>)
    ELSE IF Indent(ts) # ind THEN Fail
    ELSE BlockPair(ReadPair(Drop(ts, ind)), ind, acc)

ParseDoc(ts, one) ==
    IF one.ok /\ AtEnd(one.rest) THEN Node(one.v, <<>>)
    ELSE IF Head(ts) = "{" THEN ParseFlow(Tail(ts), EmptyFn)
    ELSE ParseBlock(ts, Indent(ts), EmptyFn)

\* yaml.Unmarshal(y, &interface{}): the document's value, or a syntax error.
Parse(ts) == IF ts = <<>> THEN Node(VNull, <<>>) ELSE ParseDoc(ts, ReadValue(ts))

(***************************************************************************)
(* sigs.k8s.io/yaml: YAML -> JSON -> value on the way in, value -> JSON -> *)
(* YAML on the way out.                                                    *)
(***************************************************************************)
\* json.Marshal rejects NaN (and +-Inf): "json: unsupported value".
JSONable(v) ==
    /\ v.t # "float"
    /\ v.t = "map" => \A k \in DOMAIN v.m : v.m[k].t # "float"

YAMLToJSON(p) ==
    IF ~p.ok THEN [err |-> "yaml", v |-> VNull]
    ELSE IF ~JSONable(p.v) THEN [err |-> "json", v |-> VNull]
    ELSE [err |-> "", v |-> p.v]

\* kyaml.Unmarshal(y, buf)
Unmarshal(ts) == YAMLToJSON(Parse(ts))

Perms(S) == {s \in [1..Cardinality(S) -> S] : \A i, j \in DOMAIN s : s[i] = s[j] => i = j}

\* The orders in which Go may iterate over the map behind v.
MapOrders(v) == IF v.t = "map" THEN Perms(DOMAIN v.m) ELSE {<<>>}

KeyLess(a, b) == KeyRank(a) < KeyRank(b)

SortKeysUnsorted(order) == order

\* json.Marshal and yaml.v2's encoder both emit a map's keys sorted.
SortKeys(order) == SortSeq(order, KeyLess)

\* yaml.v2 stringv: a string that would resolve to another type is double
\* quoted; one that starts with a flow indicator is single quoted.
EmitResolved(s, r) ==
    IF r.ok /\ r.v.t # "str" THEN Quote("double", s)
    ELSE IF s = "{}" THEN Quote("single", s)
    ELSE <<s>>
EmitString(s) == EmitResolved(s, Resolve(s))

EmitValue(v) ==
    CASE v.t = "null" -> <<"null">>
      [] v.t = "num" -> <<v.s>>
      [] v.t = "str" -> EmitString(v.s)
      [] OTHER -> <<"{", "}">>

RECURSIVE EmitPairs(_, _)
EmitPairs(m, ks) ==
    IF ks = <<>> THEN <<>>
    ELSE EmitString(Head(ks)) \o <<":">> \o EmitValue(m[Head(ks)]) \o <<"\n">>
         \o EmitPairs(m, Tail(ks))

\* kyaml.Marshal(buf)
Marshal(v, order) ==
    IF v.t = "map" /\ DOMAIN v.m # {} THEN EmitPairs(v.m, SortKeys(order))
    ELSE EmitValue(v) \o <<"\n">>

Returned(bytes) == [bytes |-> bytes, isNil |-> FALSE, err |-> ""]
Failed(err) == [bytes |-> <<>>, isNil |-> TRUE, err |-> err]
NoResult == [bytes |-> <<>>, isNil |-> TRUE, err |-> "none"]

CollapseNoNewline(encoded) ==
    IF encoded = <<"{", "}">> THEN Returned(<<>>) ELSE Returned(encoded)

\* special case: don't write anything when empty
Collapse(encoded) ==
    IF encoded = <<"{", "}", "\n">> THEN Returned(<<>>) ELSE Returned(encoded)

RoundTripIgnoreErr(d, order) == Collapse(Marshal(d.v, order))

RoundTrip(d, order) ==
    IF d.err # "" THEN Failed(d.err) ELSE Collapse(Marshal(d.v, order))

\* NormYAML(y); order is the map iteration order of this call.
NormYAML(ts, order) == RoundTrip(Unmarshal(ts), order)

OrdersOfDecoded(d) == IF d.err = "" THEN MapOrders(d.v) ELSE {<<>>}
OrdersOf(ts) == OrdersOfDecoded(Unmarshal(ts))

(***************************************************************************)
(* The inputs: mappings written in different layouts, quoting styles and   *)
(* key orders, and hand-written documents.                                 *)
(***************************************************************************)
ValSyn == {"str", "num", "nan", "emap"}
Layouts == {"flow", "block", "indented"}

RenderVal(vs, q) ==
    CASE vs = "str" -> Quote(q, "a")
      [] vs = "num" -> <<"1">>
      [] vs = "nan" -> <<".nan">>
      [] OTHER -> <<"{", "}">>

RenderPair(p, q) == Quote(q, p[1]) \o <<":">> \o RenderVal(p[2], q)

RECURSIVE RenderFlow(_, _)
RenderFlow(pairs, q) ==
    IF Len(pairs) = 1 THEN RenderPair(pairs[1], q) \o <<"}", "\n">>
    ELSE RenderPair(pairs[1], q) \o <<",">> \o RenderFlow(Tail(pairs), q)

RECURSIVE RenderBlock(_, _, _)
RenderBlock(pairs, ind, q) ==
    IF pairs = <<>> THEN <<>>
    ELSE ind \o RenderPair(pairs[1], q) \o <<"\n">> \o RenderBlock(Tail(pairs), ind, q)

Render(pairs, layout, q) ==
    IF pairs = <<>> THEN <<"{", "}", "\n">>
    ELSE CASE layout = "flow" -> <<"{">> \o RenderFlow(pairs, q)
           [] layout = "block" -> RenderBlock(pairs, <<>>, q)
           [] OTHER -> RenderBlock(pairs, <<" ">>, q)

PairSeqs ==
    UNION {{s \in [1..n -> KeySet \X ValSyn] :
               \A i, j \in 1..n : s[i][1] = s[j][1] => i = j} : n \in 0..MaxKeys}

Sources == [pairs : PairSeqs, layout : Layouts, q : QuoteStyles]
RawSource == [pairs |-> <<>>, layout |-> "raw", q |-> "plain"]

\* Spellings of the empty mapping, scalar documents, the empty document.
RawValid ==
    { <<"{", "}">>, <<"{", " ", "}", "\n">>, <<>>,
      <<"a", "\n">>, <<"1", "\n">>, <<"\"", "1", "\"", "\n">>, <<"null", "\n">>, <<"~">>,
      <<".nan", "\n">>, <<"'", "{", "}", "'", "\n">>, <<"\"", "{", "}", "\"">> }

\* Not YAML: an open flow mapping, a bad indentation, a stray "}", an open quote.
RawMalformed ==
    { <<"{", "a", ":", "1">>, <<"a", ":", "1", "\n", " ", "b", ":", "1", "\n">>,
      <<"}", "\n">>, <<"'", "a", "\n">> }

RawInputs == RawValid \cup RawMalformed

Permute(pairs, p) == [i \in DOMAIN pairs |-> pairs[p[i]]]

\* Other ways of writing the document y was written from.
Respellings(s) ==
    IF s.layout = "raw" THEN RawInputs
    ELSE {Render(Permute(s.pairs, p), l, q) :
            p \in Perms(DOMAIN s.pairs), l \in Layouts, q \in QuoteStyles}


(***************************************************************************)
(* yaml.v2 as KubeConfig uses it.  A YAML document is held as its node     *)
(* tree: scalars, null, mappings (pairs in written order) and sequences.   *)
(***************************************************************************)
NScalar(s) == [k |-> "scalar", s |-> s]
NNull == [k |-> "null"]
NMap(pairs) == [k |-> "map", e |-> pairs]
NSeq(items) == [k |-> "seq", e |-> items]
NNone == [k |-> "none"]      \* no document at all (zero bytes)

NilPtr == [nil |-> TRUE]
NilMap == [isNil |-> TRUE, m |-> EmptyFn]
MakeMap(m) == [isNil |-> FALSE, m |-> m]

\* A value whose MarshalYAML returns an error (O is a map[string]any).
VBad == [t |-> "marshaler"]
VNode(n) == [t |-> "node", n |-> n]

TString == [t |-> "string"]
TBool == [t |-> "bool"]
TStrings == [t |-> "strings"]
TStrMap == [t |-> "strmap"]
TPtr(s) == [t |-> "ptr", to |-> s]
TList(s) == [t |-> "list", to |-> s]
TStruct(s) == [t |-> "struct", to |-> s]

Field(go, key, ty, omitempty) == [go |-> go, key |-> key, ty |-> ty, omitempty |-> omitempty]

\* The struct types, fields in declaration order with their yaml tags.  A
\* field without a tag gets its lower-cased name and no omitempty.
KubeConfig ==
    << Field("Clusters", "clusters", TList("NCluster"), TRUE),
       Field("Contexts", "contexts", TList("NContext"), TRUE),
       Field("Users", "users", TList("NUser"), TRUE),
       Field("Current", "current-context", TString, TRUE) >>

NCluster ==
    << Field("Name", "name", TString, FALSE),
       Field("Cluster", "cluster", TPtr("Cluster"), FALSE) >>

Cluster ==
    << Field("Server", "server", TString, FALSE),
       Field("TLSServerName", "tls-server-name", TString, TRUE),
       Field("SkipTLSVerify", "insecure-skip-tls-verify", TBool, TRUE),
       Field("CertAuthority", "certificate-authority-data", TString, TRUE),
       Field("Proxy", "proxy-url", TString, TRUE) >>

NUser ==
    << Field("Name", "name", TString, FALSE),
       Field("User", "user", TPtr("User"), FALSE) >>

User ==
    << Field("Cert", "client-certificate-data", TString, TRUE),
       Field("Key", "client-key-data", TString, TRUE),
       Field("Token", "token", TString, TRUE),
       Field("As", "act-as", TString, TRUE),
       Field("AsUID", "act-as-uid", TString, TRUE),
       Field("AsGroups", "act-as-groups", TStrings, TRUE),
       Field("Name", "username", TString, TRUE),
       Field("Pass", "password", TString, TRUE),
       Field("Auth", "auth-provider", TPtr("AuthProvider"), TRUE) >>

NContext ==
    << Field("Name", "name", TString, FALSE),
       Field("Context", "context", TPtr("Context"), FALSE) >>

Context ==
    << Field("Cluster", "cluster", TString, FALSE),
       Field("User", "user", TString, FALSE),
       Field("Namespace", "namespace", TString, TRUE) >>

AuthProvider ==
    << Field("Name", "name", TString, FALSE),
       Field("Config", "config", TStrMap, TRUE) >>

Fields(s) ==
    CASE s = "KubeConfig" -> KubeConfig
      [] s = "NCluster" -> NCluster
      [] s = "Cluster" -> Cluster
      [] s = "NUser" -> NUser
      [] s = "User" -> User
      [] s = "NContext" -> NContext
      [] s = "Context" -> Context
      [] s = "AuthProvider" -> AuthProvider

\* The structs that have an O map[string]any `yaml:",inline,omitempty"`.
Inline(s) == s \in {"KubeConfig", "Cluster", "User", "Context", "AuthProvider"}

Range(f) == {f[i] : i \in DOMAIN f}
GoNames(s) == {fd.go : fd \in Range(Fields(s))}
KeysOf(s) == {fd.key : fd \in Range(Fields(s))}
FieldOf(s, g) == CHOOSE fd \in Range(Fields(s)) : fd.go = g
FieldByKey(s, key) == CHOOSE fd \in Range(Fields(s)) : fd.key = key

RECURSIVE ZeroOf(_)
ZeroStruct(s) == [f |-> [g \in GoNames(s) |-> ZeroOf(FieldOf(s, g).ty)], O |-> NilMap]
ZeroOf(ty) ==
    CASE ty.t = "string" -> ""
      [] ty.t = "bool" -> FALSE
      [] ty.t \in {"strings", "list"} -> <<>>
      [] ty.t = "strmap" -> NilMap
      [] ty.t = "ptr" -> NilPtr
      [] ty.t = "struct" -> ZeroStruct(ty.to)

\* yaml.v2 isZero, which decides omitempty.
IsZero(ty, v) ==
    CASE ty.t = "string" -> v = ""
      [] ty.t = "bool" -> v = FALSE
      [] ty.t \in {"strings", "list"} -> Len(v) = 0
      [] ty.t = "strmap" -> DOMAIN v.m = {}
      [] ty.t = "ptr" -> v = NilPtr
      [] OTHER -> FALSE

(***************************************************************************)
(* yaml.Unmarshal into a struct: the decoder sets what the document names  *)
(* and leaves every other field as it was.                                 *)
(***************************************************************************)
\* v: the value after decoding; good: the node itself decoded; bad: a type
\* error was recorded somewhere below (Unmarshal then returns a TypeError).
Dec(v, good, bad) == [v |-> v, good |-> good, bad |-> bad]

DecodeString(n, old) == IF n.k = "scalar" THEN Dec(n.s, TRUE, FALSE) ELSE Dec(old, FALSE, TRUE)

DecodeBool(n, old) ==
    IF n.k = "scalar" /\ n.s \in {"true", "false"} THEN Dec(n.s = "true", TRUE, FALSE)
    ELSE Dec(old, FALSE, TRUE)

DecodeStrings(n, old) ==
    IF n.k = "seq" /\ \A i \in DOMAIN n.e : n.e[i].k = "scalar"
    THEN Dec([i \in DOMAIN n.e |-> n.e[i].s], TRUE, FALSE)
    ELSE Dec(old, FALSE, TRUE)

PairKeys(pairs) == {pairs[i][1] : i \in DOMAIN pairs}
\* The value of the last pair with this key: a later duplicate overrides.
LastOf(pairs, key) ==
    pairs[CHOOSE i \in DOMAIN pairs :
             pairs[i][1] = key /\ \A j \in DOMAIN pairs : pairs[j][1] = key => j <= i][2]

DecodeStrMap(n, old) ==
    IF n.k = "map" /\ \A i \in DOMAIN n.e : n.e[i][2].k = "scalar"
    THEN Dec(MakeMap([key \in PairKeys(n.e) |-> LastOf(n.e, key).s]), TRUE, FALSE)
    ELSE Dec(old, FALSE, TRUE)

\* Into an interface{}: the generic value of the node.
DecodeAny(n) ==
    CASE n.k = "scalar" -> VStr(n.s)
      [] n.k = "null" -> VNull
      [] OTHER -> VNode(n)

\* A failed element is left out of the slice.
AppendItemFront(acc, r) ==
    Dec(IF r.good THEN <<r.v>> \o acc.v ELSE acc.v, TRUE, acc.bad \/ r.bad)

AppendItem(acc, r) ==
    Dec(IF r.good THEN Append(acc.v, r.v) ELSE acc.v, TRUE, acc.bad \/ r.bad)

SetField(acc, g, r) == Dec([acc.v EXCEPT !.f[g] = r.v], TRUE, acc.bad \/ r.bad)

\* A key that names no field goes to the inline map, made on first use.
SetInline(acc, key, a) == Dec([acc.v EXCEPT !.O = MakeMap(Put(acc.v.O.m, key, a))], TRUE, acc.bad)

\* mappingStruct starts by setting the inline map to its zero value.
ResetInline(s, old) == IF Inline(s) THEN [old EXCEPT !.O = NilMap] ELSE old

\* A nil pointer is allocated; a pointer already set is decoded into.
Target(s, old) == IF old = NilPtr THEN ZeroStruct(s) ELSE old

RECURSIVE Decode(_, _, _)
RECURSIVE DecodePairs(_, _, _)
RECURSIVE DecodeItems(_, _, _)

DecodeField(fd, n, acc) == SetField(acc, fd.go, Decode(fd.ty, n, acc.v.f[fd.go]))

DecodePair(s, key, n, acc) ==
    IF key \in KeysOf(s) THEN DecodeField(FieldByKey(s, key), n, acc)
    ELSE IF Inline(s) THEN SetInline(acc, key, DecodeAny(n))
    ELSE acc

DecodePairs(s, pairs, acc) ==
    IF pairs = <<>> THEN acc
    ELSE DecodePairs(s, Tail(pairs), DecodePair(s, Head(pairs)[1], Head(pairs)[2], acc))

DecodeItems(s, items, acc) ==
    IF items = <<>> THEN acc
    ELSE DecodeItems(s, Tail(items), AppendItem(acc, Decode(TPtr(s), Head(items), NilPtr)))

DecodeStruct(s, n, old) ==
    IF n.k = "map" THEN DecodePairs(s, n.e, Dec(ResetInline(s, old), TRUE, FALSE))
    ELSE Dec(old, FALSE, TRUE)

DecodeList(s, n, old) ==
    IF n.k = "seq" THEN DecodeItems(s, n.e, Dec(<<>>, TRUE, FALSE))
    ELSE Dec(old, FALSE, TRUE)

\* d.unmarshal(n, out): a null node sets out to its zero value.
Decode(ty, n, old) ==
    IF n.k = "null" THEN Dec(ZeroOf(ty), TRUE, FALSE)
    ELSE CASE ty.t = "string" -> DecodeString(n, old)
           [] ty.t = "bool" -> DecodeBool(n, old)
           [] ty.t = "strings" -> DecodeStrings(n, old)
           [] ty.t = "strmap" -> DecodeStrMap(n, old)
           [] ty.t = "ptr" -> DecodeStruct(ty.to, n, Target(ty.to, old))
           [] ty.t = "list" -> DecodeList(ty.to, n, old)
           [] ty.t = "struct" -> DecodeStruct(ty.to, n, old)

(***************************************************************************)
(* yaml.Marshal of a struct.  kind is "ok", "err" (Marshal returns an      *)
(* error: a yamlError raised by fail() and recovered by handleErr) or      *)
(* "panic" (a panic that is no yamlError, which handleErr lets through).   *)
(***************************************************************************)
Enc(kind, doc) == [kind |-> kind, doc |-> doc]

\* Every key a map of the model can hold, in the encoder's sort order.
OKeyOrder == <<"clusters", "current-context", "id-token", "note", "owner">>
SortedKeys(S) == SelectSeq(OKeyOrder, LAMBDA key : key \in S)

EncodeAny(a) ==
    CASE a.t = "str" -> Enc("ok", NScalar(a.s))
      [] a.t = "null" -> Enc("ok", NNull)
      [] a.t = "node" -> Enc("ok", a.n)
      [] a.t = "marshaler" -> Enc("err", NNone)

EncodeStrMap(v) ==
    Enc("ok", NMap([i \in DOMAIN SortedKeys(DOMAIN v.m) |->
                       <<SortedKeys(DOMAIN v.m)[i], NScalar(v.m[SortedKeys(DOMAIN v.m)[i]])>>]))

\* The first failure ends the encoding.
AddPair(acc, key, r) ==
    IF r.kind = "ok" THEN Enc("ok", Append(acc.doc, <<key, r.doc>>)) ELSE Enc(r.kind, acc.doc)
AddItem(acc, r) ==
    IF r.kind = "ok" THEN Enc("ok", Append(acc.doc, r.doc)) ELSE Enc(r.kind, acc.doc)

RECURSIVE Encode(_, _)
RECURSIVE EncodeFields(_, _, _)
RECURSIVE EncodeInline(_, _, _, _)
RECURSIVE EncodeItems(_, _, _)

EncodeField(fd, v, acc) ==
    IF fd.omitempty /\ IsZero(fd.ty, v) THEN acc ELSE AddPair(acc, fd.key, Encode(fd.ty, v))

EncodeFields(fds, v, acc) ==
    IF fds = <<>> \/ acc.kind # "ok" THEN acc
    ELSE EncodeFields(Tail(fds), v, EncodeField(Head(fds), v.f[Head(fds).go], acc))

\* "Can't have key %q in inlined map; conflicts with struct field"
EncodeInline(s, m, keys, acc) ==
    IF keys = <<>> \/ acc.kind # "ok" THEN acc
    ELSE IF Head(keys) \in KeysOf(s) THEN Enc("panic", acc.doc)
    ELSE EncodeInline(s, m, Tail(keys), AddPair(acc, Head(keys), EncodeAny(m[Head(keys)])))

EncodeItems(s, items, acc) ==
    IF items = <<>> \/ acc.kind # "ok" THEN acc
    ELSE EncodeItems(s, Tail(items), AddItem(acc, Encode(TPtr(s), Head(items))))

AsMap(acc) == Enc(acc.kind, NMap(acc.doc))
AsSeq(acc) == Enc(acc.kind, NSeq(acc.doc))

\* structv: the fields in declaration order, then the inline map's keys sorted.
EncodeStruct(s, v) ==
    AsMap(IF Inline(s)
          THEN EncodeInline(s, v.O.m, SortedKeys(DOMAIN v.O.m),
                            EncodeFields(Fields(s), v, Enc("ok", <<>>)))
          ELSE EncodeFields(Fields(s), v, Enc("ok", <<>>)))

Encode(ty, v) ==
    CASE ty.t = "string" -> Enc("ok", NScalar(v))
      [] ty.t = "bool" -> Enc("ok", NScalar(IF v THEN "true" ELSE "false"))
      [] ty.t = "strings" -> Enc("ok", NSeq([i \in DOMAIN v |-> NScalar(v[i])]))
      [] ty.t = "strmap" -> EncodeStrMap(v)
      [] ty.t = "ptr" -> IF v = NilPtr THEN Enc("ok", NNull) ELSE EncodeStruct(ty.to, v)
      [] ty.t = "list" -> AsSeq(EncodeItems(ty.to, v, Enc("ok", <<>>)))
      [] ty.t = "struct" -> EncodeStruct(ty.to, v)

\* yaml.Marshal(c)
MarshalConfig(cfg) == Encode(TStruct("KubeConfig"), cfg)

\* yaml.Unmarshal(buf, c); data is a file's content.
UnmarshalConfig(data, cfg) ==
    IF ~data.valid THEN [v |-> cfg, err |-> "yaml"]
    ELSE IF data.doc = NNone THEN [v |-> cfg, err |-> ""]
    ELSE [v |-> Decode(TStruct("KubeConfig"), data.doc, cfg).v,
          err |-> IF Decode(TStruct("KubeConfig"), data.doc, cfg).bad THEN "type" ELSE ""]

(***************************************************************************)
(* KUBECONFIG files.                                                       *)
(***************************************************************************)
Names == {"a", "b"}
Lists == {"clusters", "contexts", "users"}

\* A key no struct names, written at a level when ext is set.
ExtPair == <<"note", NScalar("x")>>
Ext(ext) == IF ext THEN <<ExtPair>> ELSE <<>>

AuthNode(ext) ==
    NMap(<< <<"name", NScalar("oidc")>>,
            <<"config", NMap(<< <<"id-token", NScalar("s3cr3t")>> >>)>> >> \o Ext(ext))

ValueNode(list, ext) ==
    CASE list = "clusters" -> NMap(<< <<"server", NScalar("https://k")>> >> \o Ext(ext))
      [] list = "contexts" ->
           NMap(<< <<"cluster", NScalar("a")>>, <<"user", NScalar("a")>> >> \o Ext(ext))
      [] list = "users" ->
           NMap(<< <<"token", NScalar("t0k")>>, <<"auth-provider", AuthNode(ext)>> >> \o Ext(ext))

ValueKey(list) ==
    CASE list = "clusters" -> "cluster" [] list = "contexts" -> "context" [] list = "users" -> "user"

EntryNode(list, name, ext) ==
    NMap(<< <<"name", NScalar(name)>>, <<ValueKey(list), ValueNode(list, ext)>> >> \o Ext(ext))

ListNode(list, names, ext) == NSeq([i \in DOMAIN names |-> EntryNode(list, names[i], ext)])

CurPair(cur) == IF cur THEN << <<"current-context", NScalar("prod")>> >> ELSE <<>>

Doc(list, names, ext, cur) ==
    NMap(Ext(ext) \o << <<list, ListNode(list, names, ext)>> >> \o CurPair(cur))

File(doc) == [valid |-> TRUE, doc |-> doc]
Garbage == [valid |-> FALSE, doc |-> NNone]
EmptyFile == File(NNone)

NameSeqs == UNION {[1..n -> Names] : n \in 0..MaxEntries}

\* A clusters list whose first entry is a scalar: a type error.
TypeErrDoc == NMap(<< <<"clusters", NSeq(<<NScalar("oops"), EntryNode("clusters", "a", FALSE)>>)>> >>)

\* Every order of names in every list; unknown keys and a current-context
\* with a short list; the list b, a, c; and the documents that are no mapping.
Contents ==
    {File(Doc(list, names, FALSE, FALSE)) : list \in Lists, names \in NameSeqs}
    \cup {File(Doc(list, names, ext, cur)) :
            list \in Lists, names \in {<<>>, <<"a">>}, ext \in BOOLEAN, cur \in BOOLEAN}
    \cup {File(Doc("clusters", <<"b", "a", "c">>, TRUE, TRUE))}
    \cup {Garbage, EmptyFile, File(NNull), File(NMap(CurPair(TRUE))), File(TypeErrDoc)}

Paths == {"in", "out"}

Mode0600 == {"ur", "uw"}
Mode0644 == {"ur", "uw", "gr", "or"}
Mode0444 == {"ur", "gr", "or"}
Umask == {"gw", "ow"}

Absent == [exists |-> FALSE, mode |-> {}, data |-> EmptyFile]
Present(mode, data) == [exists |-> TRUE, mode |-> mode, data |-> data]

\* os.ReadFile(path)
ReadFile(f) ==
    IF f.exists /\ "ur" \in f.mode THEN [err |-> "", data |-> f.data]
    ELSE [err |-> "io", data |-> EmptyFile]

\* os.WriteFile(path, buf, perm): O_WRONLY|O_CREATE|O_TRUNC; perm (less the
\* umask) is the mode of a file it creates, and an existing file keeps its mode.
WriteFile(f, data, perm) ==
    IF ~f.exists THEN [err |-> "", file |-> Present(perm \ Umask, data)]
    ELSE IF "uw" \in f.mode THEN [err |-> "", file |-> Present(f.mode, data)]
    ELSE [err |-> "io", file |-> f]

Op(op, path, err, wrote) == [op |-> op, path |-> path, err |-> err, wrote |-> wrote]
NotShown == [kind |-> "none", doc |-> NNone]

Init ==
    /\ c = ZeroStruct("KubeConfig")
    /\ \E data \in Contents, old \in {Absent, Present(Mode0644, EmptyFile), Present(Mode0444, EmptyFile)} :
          fs = [p \in Paths |-> IF p = "in" THEN Present(Mode0600, data) ELSE old]
    /\ last = Op("none", "", "", FALSE)
    /\ shown = NotShown
    /\ loaded = Garbage
    /\ assigned = {}
    /\ ops = 0
    /\ y = <<>> /\ src = RawSource /\ r1 = NoResult /\ y2 = <<>> /\ r2 = NoResult /\ nmode = "idle"
    /\ ap = NilPtr /\ apOp = "idle" /\ apOut = ""

\* One more operation of the run; the other components stand still.
Tick ==
    /\ ops < MaxOps
    /\ ops' = ops + 1
    /\ UNCHANGED <<normVars, authVars>>

LoadRead(path, rd) ==
    IF rd.err # "" THEN
        /\ last' = Op("Load", path, rd.err, FALSE)
        /\ UNCHANGED <<c, loaded, assigned>>
    ELSE
        /\ c' = UnmarshalConfig(rd.data, c).v
        /\ last' = Op("Load", path, UnmarshalConfig(rd.data, c).err, FALSE)
        /\ loaded' = IF UnmarshalConfig(rd.data, c).err = "" THEN rd.data ELSE Garbage
        /\ assigned' = {}

\* func (c *KubeConfig) Load(path string) error
Load(path) ==
    /\ Tick
    /\ LoadRead(path, ReadFile(fs[path]))
    /\ shown' = NotShown
    /\ UNCHANGED fs

\* buf, _ := yaml.Marshal(c); return string(buf)
StringOf(m) ==
    IF m.kind = "panic" THEN [kind |-> "panic", doc |-> NNone]
    ELSE IF m.kind = "err" THEN [kind |-> "returned", doc |-> NNone]
    ELSE [kind |-> "returned", doc |-> m.doc]

\* func (c KubeConfig) String() string
String ==
    /\ Tick
    /\ shown' = StringOf(MarshalConfig(c))
    /\ last' = Op("String", "", "", FALSE)
    /\ UNCHANGED <<c, fs, loaded, assigned>>

WriteMarshalled(path, m, wr) ==
    IF m.kind = "panic" THEN last' = Op("Write", path, "panic", FALSE) /\ UNCHANGED fs
    ELSE IF m.kind = "err" THEN last' = Op("Write", path, "marshal", FALSE) /\ UNCHANGED fs
    ELSE /\ fs' = [fs EXCEPT ![path] = wr.file]
         /\ last' = Op("Write", path, wr.err, wr.err = "")

\* func (c *KubeConfig) Write(path string) error
Write(path) ==
    /\ Tick
    /\ WriteMarshalled(path, MarshalConfig(c), WriteFile(fs[path], File(MarshalConfig(c).doc), Mode0600))
    /\ shown' = NotShown
    /\ UNCHANGED <<c, loaded, assigned>>

\* The caller assigns c.Current.
SetCurrent ==
    /\ Tick
    /\ c.f.Current # "dev"
    /\ c' = [c EXCEPT !.f.Current = "dev"]
    /\ last' = Op("SetCurrent", "", "", FALSE)
    /\ shown' = NotShown
    /\ assigned' = assigned \cup {"Current"}
    /\ UNCHANGED <<fs, loaded>>

\* The caller assigns c.O[key].
SetExt(key, val) ==
    /\ Tick
    /\ key \notin DOMAIN c.O.m
    /\ c' = [c EXCEPT !.O = MakeMap(Put(c.O.m, key, val))]
    /\ last' = Op("SetExt", "", "", FALSE)
    /\ shown' = NotShown
    /\ assigned' = assigned \cup {"O"}
    /\ UNCHANGED <<fs, loaded>>

\* What the caller puts into O: a plain value, a value that fails to
\* marshal, and a key that is also the yaml name of a field.
Assigned == {<<"owner", VStr("me")>>, <<"owner", VBad>>, <<"current-context", VStr("me")>>}

AssignExt == \E a \in Assigned : SetExt(a[1], a[2])
LoadIn == Load("in")
WriteOut == Write("out")

Next == LoadIn \/ String \/ WriteOut \/ SetCurrent \/ AssignExt

Spec == Init /\ [][Next]_vars

(***************************************************************************)
(* NormYAML on its own: an input, a call, and a second call on the first   *)
(* call's output or on another spelling of the same document.              *)
(***************************************************************************)
NormInit ==
    /\ \/ \E s \in Sources : src = s /\ y = Render(s.pairs, s.layout, s.q)
       \/ src = RawSource /\ y \in RawInputs
    /\ r1 = NoResult
    /\ y2 = <<>>
    /\ r2 = NoResult
    /\ nmode = "init"
    /\ c = NilPtr /\ fs = <<>> /\ last = NilPtr /\ shown = NilPtr /\ loaded = NilPtr /\ assigned = {} /\ ops = 0
    /\ ap = NilPtr /\ apOp = "idle" /\ apOut = ""

\* out, err := NormYAML(y)
NormCall ==
    /\ nmode = "init"
    /\ \E order \in OrdersOf(y) : r1' = NormYAML(y, order)
    /\ nmode' = "called"
    /\ UNCHANGED <<y, src, y2, r2, cfgVars, authVars>>

\* NormYAML applied to the output of the first call
NormAgain ==
    /\ nmode = "called"
    /\ r1.err = ""
    /\ y2' = r1.bytes
    /\ \E order \in OrdersOf(r1.bytes) : r2' = NormYAML(r1.bytes, order)
    /\ nmode' = "again"
    /\ UNCHANGED <<y, src, r1, cfgVars, authVars>>

\* NormYAML applied to another spelling of the first call's document
NormOther ==
    /\ nmode = "called"
    /\ \E z \in Respellings(src) :
          /\ y2' = z
          /\ \E order \in OrdersOf(z) : r2' = NormYAML(z, order)
    /\ nmode' = "other"
    /\ UNCHANGED <<y, src, r1, cfgVars, authVars>>

NormNext == NormCall \/ NormAgain \/ NormOther

SpecNorm == NormInit /\ [][NormNext]_vars


(***************************************************************************)
(* AuthProvider.String and GoString.                                       *)
(***************************************************************************)
\* fmt's %q of a name that needs no escapes.
GoQuote(s) == "\"" \o s \o "\""

Sprintf(name, cfg) ==
    "api.AuthProvider{Name: " \o GoQuote(name) \o ", Config: map[string]string{" \o cfg \o "}}"

AnyValue(m) == IF DOMAIN m = {} THEN "" ELSE m[CHOOSE key \in DOMAIN m : TRUE]

AuthProviderStringLeaky(a) ==
    Sprintf(a.f.Name, IF a.f.Config.isNil THEN "<nil>" ELSE AnyValue(a.f.Config.m))

\* func (c AuthProvider) String() string
AuthProviderString(a) ==
    Sprintf(a.f.Name, IF a.f.Config.isNil THEN "<nil>" ELSE "--- REDACTED ---")

\* func (c AuthProvider) GoString() string
AuthProviderGoString(a) == AuthProviderString(a)

ProviderNames == {"oidc", "gcp", "azure"}
ConfigKeys == {"id-token", "client-secret"}
ConfigValues == {"s3cr3t", "t0k", "oidc"}
Configs ==
    {NilMap, MakeMap(EmptyFn)}
    \cup {MakeMap([key \in {k} |-> v]) : k \in ConfigKeys, v \in ConfigValues}
Extensions == {NilMap, MakeMap([key \in {"note"} |-> VStr("x")])}
AuthProviders ==
    {[f |-> [Name |-> n, Config |-> cf], O |-> o] :
        n \in ProviderNames, cf \in Configs, o \in Extensions}

AuthInit ==
    /\ ap \in AuthProviders
    /\ apOp = "none"
    /\ apOut = ""
    /\ c = NilPtr /\ fs = <<>> /\ last = NilPtr /\ shown = NilPtr /\ loaded = NilPtr
    /\ assigned = {} /\ ops = 0
    /\ y = <<>> /\ src = RawSource /\ r1 = NoResult /\ y2 = <<>> /\ r2 = NoResult /\ nmode = "idle"

AuthString ==
    /\ apOp = "none"
    /\ apOut' = AuthProviderString(ap)
    /\ apOp' = "String"
    /\ UNCHANGED <<ap, normVars, cfgVars>>

AuthGoString ==
    /\ apOp = "none"
    /\ apOut' = AuthProviderGoString(ap)
    /\ apOp' = "GoString"
    /\ UNCHANGED <<ap, normVars, cfgVars>>

AuthNext == AuthString \/ AuthGoString

SpecAuth == AuthInit /\ [][AuthNext]_vars


(***************************************************************************)
(* Properties of NormYAML (SpecNorm).                                      *)
(***************************************************************************)
EmptyMapping == VMap(EmptyFn)
Called == nmode \in {"called", "again", "other"}

\* C1: NormYAML is idempotent: applied to its own output it succeeds and
\* returns the same bytes, also when the input's value is an empty mapping.
Idempotent ==
    nmode = "again" => r2.err = "" /\ r2.bytes = r1.bytes

\* C5: an input whose value is an empty mapping gives a zero-length, non-nil
\* result and no error; every other decoded value gives the encoder's bytes
\* for that value, which are never empty.
EmptyCollapse ==
    Called /\ Unmarshal(y).err = "" =>
        IF Unmarshal(y).v = EmptyMapping THEN r1 = Returned(<<>>)
        ELSE /\ r1.err = ""
             /\ ~r1.isNil
             /\ r1.bytes # <<>>
             /\ \A order \in MapOrders(Unmarshal(y).v) : r1.bytes = Marshal(Unmarshal(y).v, order)

EmptyCollapseWitness ==
    /\ nmode = "called"
    /\ y = <<"{", " ", "}", "\n">>
    /\ Parse(y).v = EmptyMapping
    /\ r1 = Returned(<<>>)

\* C7: two inputs that parse to the same value, however they are laid out,
\* quoted and ordered, and whatever order the maps are iterated in, give the
\* same result.
CanonicalForm ==
    nmode = "other" /\ Parse(y).ok /\ Parse(y2).ok /\ Parse(y).v = Parse(y2).v => r2 = r1

CanonicalFormWitness ==
    /\ nmode = "other"
    /\ src.layout = "block" /\ src.q = "plain" /\ Len(src.pairs) = 2
    /\ y2 = Render(<<src.pairs[2], src.pairs[1]>>, "flow", "double")
    /\ Parse(y).v = Parse(y2).v
    /\ r1.err = "" /\ r2 = r1

\* C9 as stated: an input that is not YAML gives an error and nil bytes, and
\* every input that is YAML gives no error.
ErrorIffNotYAML ==
    Called =>
        /\ ~Parse(y).ok => r1.err # "" /\ r1.isNil /\ r1.bytes = <<>>
        /\ Parse(y).ok => r1.err = ""

\* C9 amended: NormYAML returns an error, with nil bytes, exactly when the
\* input is not YAML or its value has no JSON form (NaN); it always returns.
ErrorIffNotJSONable ==
    Called =>
        /\ r1.err \in {"", "yaml", "json"}
        /\ r1.err # "" <=> (~Parse(y).ok \/ ~JSONable(Parse(y).v))
        /\ r1.err # "" => r1.isNil /\ r1.bytes = <<>>
        /\ r1.err = "" => ~r1.isNil

ErrorWitness ==
    /\ nmode = "called"
    /\ y = <<"{", "a", ":", "1">>
    /\ ~Parse(y).ok
    /\ r1 = Failed("yaml")

(***************************************************************************)
(* Properties of KubeConfig (Spec).                                        *)
(***************************************************************************)
HasList(n, list) == n.k = "map" /\ list \in PairKeys(n.e) /\ LastOf(n.e, list).k = "seq"

EntryName(e) ==
    IF e.k = "map" /\ "name" \in PairKeys(e.e) /\ LastOf(e.e, "name").k = "scalar"
    THEN LastOf(e.e, "name").s ELSE "?"

\* The names of the list's entries, in the order the document holds them.
ListNames(n, list) ==
    IF HasList(n, list)
    THEN [i \in DOMAIN LastOf(n.e, list).e |-> EntryName(LastOf(n.e, list).e[i])]
    ELSE <<>>

\* Every key of n that names no field is in o, at the same place, with the same value.
RECURSIVE Survives(_, _, _)
SurvivesPair(s, key, v, o) ==
    IF key \notin KeysOf(s) THEN key \in PairKeys(o.e) /\ LastOf(o.e, key) = v
    ELSE key \in PairKeys(o.e) => Survives(FieldByKey(s, key).ty, v, LastOf(o.e, key))
Survives(ty, n, o) ==
    CASE ty.t \in {"struct", "ptr"} /\ n.k = "map" ->
           o.k = "map" /\ \A i \in DOMAIN n.e : SurvivesPair(ty.to, n.e[i][1], n.e[i][2], o)
      [] ty.t = "list" /\ n.k = "seq" ->
           /\ o.k = "seq" /\ Len(o.e) = Len(n.e)
           /\ \A i \in DOMAIN n.e : Survives(TPtr(ty.to), n.e[i], o.e[i])
      [] OTHER -> TRUE

\* C2: after a load, and whatever other fields the caller assigned since,
\* String shows every unknown key of the file, at every level.
UnknownKeysSurvive ==
    last.op = "String" /\ shown.kind = "returned" /\ shown.doc # NNone /\ loaded.valid =>
        Survives(TStruct("KubeConfig"), loaded.doc, shown.doc)

\* C3: after a successful Load the receiver is what loading the file into a
\* new KubeConfig gives.
LoadOverwrites ==
    last.op = "Load" /\ last.err = "" =>
        c = UnmarshalConfig(fs[last.path].data, ZeroStruct("KubeConfig")).v

\* C4: after a successful Write the file holds the serialization and its
\* mode is 0600, whether it existed before or not.
WriteRestrictsMode ==
    last.op = "Write" /\ last.err = "" =>
        /\ fs[last.path].exists
        /\ fs[last.path].data = File(MarshalConfig(c).doc)
        /\ fs[last.path].mode = Mode0600

\* C8: String and Write directly after a successful Load emit the entries of
\* each list the file holds in the file's order, none added, dropped or
\* duplicated.
OrderPreserved ==
    \A list \in Lists :
        loaded.valid /\ HasList(loaded.doc, list) /\ assigned = {} =>
            /\ last.op = "String" =>
                 shown.kind = "returned" /\ ListNames(shown.doc, list) = ListNames(loaded.doc, list)
            /\ last.op = "Write" /\ last.err = "" =>
                 ListNames(fs[last.path].data.doc, list) = ListNames(loaded.doc, list)

OrderPreservedWitness ==
    /\ last.op = "String"
    /\ assigned = {}
    /\ loaded = File(Doc("clusters", <<"b", "a", "c">>, TRUE, TRUE))
    /\ ListNames(shown.doc, "clusters") = <<"b", "a", "c">>

\* C10: when yaml.Marshal fails on the receiver, String does not return
\* normally and Write reports it and writes nothing.
MarshalFailureSurfaced ==
    MarshalConfig(c).kind # "ok" =>
        /\ last.op = "String" => shown.kind = "panic"
        /\ last.op = "Write" => last.err # "" /\ ~last.wrote

(***************************************************************************)
(* Properties of AuthProvider.String (SpecAuth).                           *)
(***************************************************************************)
Contains(s, sub) == \E i \in 1..(Len(s) + 1 - Len(sub)) : SubSeq(s, i, i + Len(sub) - 1) = sub

Formatted == apOp \in {"String", "GoString"}

\* The keys and values of Config and of O.
Hidden(a) ==
    DOMAIN a.f.Config.m \cup {a.f.Config.m[key] : key \in DOMAIN a.f.Config.m}
    \cup DOMAIN a.O.m \cup {a.O.m[key].s : key \in DOMAIN a.O.m}

SameName(a, b) == a.f.Name = b.f.Name
SameNil(a, b) == a.f.Config.isNil <=> b.f.Config.isNil

\* The output is fixed by Name and by whether Config is nil, and the two
\* cases of one Name differ.
DependsOnNameAndNil ==
    /\ \A q \in AuthProviders : SameName(q, ap) /\ SameNil(q, ap) => AuthProviderString(q) = apOut
    /\ \A q \in AuthProviders : SameName(q, ap) /\ ~SameNil(q, ap) => AuthProviderString(q) # apOut
    /\ Contains(apOut, IF ap.f.Config.isNil THEN "<nil>" ELSE "--- REDACTED ---")

====
